---- MODULE Spec2Model ----
(***************************************************************************)
(* A model of the image store (core/ppm.rs), of connected-component        *)
(* labelling (core/ccl.rs), of the image operations (core/operations.rs)   *)
(* and of the colour conversions (core/color.rs) of image-viewer-rs.       *)
(*                                                                         *)
(* Rust indices are 0-based, TLA+ sequences 1-based: byte i of the Rust    *)
(* buffer is pixels[i + 1], channel ch of a pixel is pixel[ch + 1], and    *)
(* entry i of the Rust label vector is labels[i + 1].                      *)
(***************************************************************************)
EXTENDS Integers, Sequences, FiniteSets

VARIABLES image, index, ccl, op

\* core/mod.rs
PIXEL_SIZE == 3
R_CH == 0
G_CH == 1
B_CH == 2

\* core/color.rs
BLACK == <<0, 0, 0>>

\* u8::MAX
U8_MAX == 255

(***************************************************************************)
(* Bounds of the image store specification.                                *)
(***************************************************************************)
\* the images of the store specification hold at most MaxPixels pixels
MaxPixels == 4

\* the pixel values written by the callers of the store specification
RED == <<255, 0, 0>>
NAVY == <<0, 0, 9>>
PixelInputs == {BLACK, RED, NAVY}

\* the header fields a caller may pass to set_header / hint_max_value
PpmTypes == {"P6"}
MaxValues == {255}

(***************************************************************************)
(* Maps (HashMap / BTreeMap) are functions whose DOMAIN is the key set.    *)
(***************************************************************************)
EmptyMap == [k \in {} |-> 0]

MapInsert(m, key, value) ==
  [k \in (DOMAIN m) \cup {key} |-> IF k = key THEN value ELSE m[k]]

MapRemove(m, key) == [k \in (DOMAIN m) \ {key} |-> m[k]]

(***************************************************************************)
(* PpmHeader and PpmImage                                                  *)
(***************************************************************************)
PpmHeader_new(width, height) ==
  [ppm_type |-> "P6", width |-> width, height |-> height, max_value |-> 0]

\* PpmImage::new with the channel-usage map seeded from the black buffer
PpmImage_new_seeded(width, height) ==
  LET capacity == PIXEL_SIZE * (height * width)
  IN  [header |-> PpmHeader_new(width, height),
       pixels |-> [i \in 1..capacity |-> 0],
       histogram |-> MapInsert(EmptyMap, BLACK, capacity),
       rgb_components_used |-> MapInsert(EmptyMap, 0, capacity),
       keep_histogram_updated |-> FALSE]

PpmImage_new(width, height) ==
  LET capacity == PIXEL_SIZE * (height * width)
  IN  [header |-> PpmHeader_new(width, height),
       pixels |-> [i \in 1..capacity |-> 0],
       histogram |-> MapInsert(EmptyMap, BLACK, capacity),
       rgb_components_used |-> EmptyMap,
       keep_histogram_updated |-> FALSE]

width(img) == img.header.width

height(img) == img.header.height

\* the keys holding the greatest count: HashMap iteration order is
\* unspecified, so max_by may return any of them
get_key_with_max_value(hash_map) ==
  {k \in DOMAIN hash_map : \A j \in DOMAIN hash_map : hash_map[j] <= hash_map[k]}

\* the set of values get_background may return
get_background(img) == get_key_with_max_value(img.histogram)

SetMax(S) == CHOOSE m \in S : \A n \in S : n <= m

max_value(img) ==
  IF DOMAIN img.rgb_components_used # {}
    THEN SetMax(DOMAIN img.rgb_components_used)
    ELSE U8_MAX

hint_max_value(img, m) ==
  [img EXCEPT !.header = [img.header EXCEPT !.max_value = m]]

set_header(img, header) == [img EXCEPT !.header = header]

\* one iteration of "if let Some(count) = map.get_mut(key) { *count -= 1;
\* if *count == 0 { map.remove(key) } }"
DecrementOrRemove(m, key) ==
  IF key \in DOMAIN m
    THEN IF m[key] - 1 = 0 THEN MapRemove(m, key)
                           ELSE [m EXCEPT ![key] = m[key] - 1]
    ELSE m

\* one iteration of "if let Some(count) = map.get_mut(key) { *count += 1 }"
IncrementIfPresent(m, key) ==
  IF key \in DOMAIN m THEN [m EXCEPT ![key] = m[key] + 1] ELSE m

\* "for ch in R_CH..B_CH { ... }" of remove_from_hist: the range excludes
\* B_CH, so the body runs for the red and then for the green channel
DecrementChannels(m, rgb) ==
  DecrementOrRemove(DecrementOrRemove(m, rgb[R_CH + 1]), rgb[G_CH + 1])

\* "for ch in R_CH..B_CH { ... }" of add_to_hist
IncrementChannels(m, rgb) ==
  IncrementIfPresent(IncrementIfPresent(m, rgb[R_CH + 1]), rgb[G_CH + 1])

remove_from_hist(img, rgb) ==
  IF rgb \in DOMAIN img.histogram
    THEN [img EXCEPT
           !.histogram = DecrementOrRemove(img.histogram, rgb),
           !.rgb_components_used =
              DecrementChannels(img.rgb_components_used, rgb)]
    ELSE img

add_to_hist(img, rgb) ==
  IF rgb \in DOMAIN img.histogram
    THEN [img EXCEPT
           !.histogram = IncrementIfPresent(img.histogram, rgb),
           !.rgb_components_used =
              IncrementChannels(img.rgb_components_used, rgb)]
    ELSE [img EXCEPT
           !.histogram = MapInsert(img.histogram, rgb, 1),
           !.rgb_components_used =
              MapInsert(MapInsert(MapInsert(img.rgb_components_used,
                rgb[R_CH + 1], 1), rgb[G_CH + 1], 1), rgb[B_CH + 1], 1)]

get_bytes_at(img, i) ==
  <<img.pixels[i + 1], img.pixels[i + 2], img.pixels[i + 3]>>

\* the image after set_pixel(&mut i, pixel); the caller's index becomes
\* i + PIXEL_SIZE.  The keep_histogram_updated flag is not read.
set_pixel(img, i, pixel) ==
  LET removed_pixel == get_bytes_at(img, i)
      removed == remove_from_hist(img, removed_pixel)
      written == [removed EXCEPT !.pixels =
                    [k \in DOMAIN img.pixels |->
                       IF k \in (i + 1)..(i + PIXEL_SIZE)
                         THEN pixel[k - i] ELSE img.pixels[k]]]
  IN  add_to_hist(written, pixel)

\* get_index for a buffer stored column after column
get_index_transposed(x, y, w) == PIXEL_SIZE * (y + x * w)

get_index(x, y, w) == PIXEL_SIZE * (x + y * w)

set_pixel_by_coord(img, x, y, pixel) ==
  set_pixel(img, get_index(x, y, width(img)), pixel)

\* ccl, or an operation of core/operations.rs, has not been called on the
\* image
NotCalled == [pc |-> "idle"]

(***************************************************************************)
(* The image store as a state machine: one image and the index variable   *)
(* its caller passes to set_pixel by mutable reference.                    *)
(***************************************************************************)
vars == <<image, index, ccl, op>>

\* the dimensions (width, height) of the images constructed
Dims == {d \in (1..MaxPixels) \X (1..MaxPixels) : d[1] * d[2] <= MaxPixels}

Init ==
  /\ \E d \in Dims : image = PpmImage_new(d[1], d[2])
  /\ index = 0
  /\ ccl = NotCalled
  /\ op = NotCalled

\* the caller drops the image and constructs a new one
New(w, h) ==
  /\ image' = PpmImage_new(w, h)
  /\ index' = 0
  /\ UNCHANGED <<ccl, op>>

\* indices whose three bytes lie in the buffer (any other index panics)
PixelIndices(img) ==
  {i \in 0..Len(img.pixels) : i % PIXEL_SIZE = 0 /\ i + PIXEL_SIZE <= Len(img.pixels)}

SetPixel(i, pixel) ==
  /\ i \in PixelIndices(image)
  /\ image' = set_pixel(image, i, pixel)
  /\ index' = i + PIXEL_SIZE
  /\ UNCHANGED <<ccl, op>>

SetPixelByCoord(x, y, pixel) ==
  /\ x < width(image)
  /\ y < height(image)
  /\ get_index(x, y, width(image)) \in PixelIndices(image)
  /\ image' = set_pixel_by_coord(image, x, y, pixel)
  /\ UNCHANGED <<index, ccl, op>>

SetHeader(header) ==
  /\ image' = set_header(image, header)
  /\ UNCHANGED <<index, ccl, op>>

HintMaxValue(m) ==
  /\ image' = hint_max_value(image, m)
  /\ UNCHANGED <<index, ccl, op>>

\* keep_histogram_updated is a public field (ccl.rs assigns it)
SetKeepHistogramUpdated(b) ==
  /\ image' = [image EXCEPT !.keep_histogram_updated = b]
  /\ UNCHANGED <<index, ccl, op>>

Headers ==
  {[ppm_type |-> t, width |-> d[1], height |-> d[2], max_value |-> m] :
     t \in PpmTypes, d \in Dims, m \in MaxValues}

Next ==
  \/ \E d \in Dims : New(d[1], d[2])
  \/ \E i \in 0..(PIXEL_SIZE * MaxPixels), p \in PixelInputs : SetPixel(i, p)
  \/ \E x \in 0..(MaxPixels - 1), y \in 0..(MaxPixels - 1), p \in PixelInputs :
       SetPixelByCoord(x, y, p)
  \/ \E header \in Headers : SetHeader(header)
  \/ \E m \in MaxValues : HintMaxValue(m)
  \/ \E b \in BOOLEAN : SetKeepHistogramUpdated(b)

Spec == Init /\ [][Next]_vars

(***************************************************************************)
(* What the buffer of the image actually holds.                            *)
(***************************************************************************)
PixelCount(img) == Len(img.pixels) \div PIXEL_SIZE

\* the pixel values present in the buffer
PresentPixels(img) ==
  {get_bytes_at(img, PIXEL_SIZE * k) : k \in 0..(PixelCount(img) - 1)}

\* the number of pixels of the buffer holding p
Occurrences(img, p) ==
  Cardinality({k \in 0..(PixelCount(img) - 1) :
                 get_bytes_at(img, PIXEL_SIZE * k) = p})

\* the channel values present in the buffer
PresentChannels(img) == {img.pixels[i] : i \in DOMAIN img.pixels}

\* the number of bytes of the buffer holding v
ChannelSlots(img, v) == Cardinality({i \in DOMAIN img.pixels : img.pixels[i] = v})

\* a step that writes a pixel through set_pixel or set_pixel_by_coord
WriteStep ==
  \/ \E i \in 0..(PIXEL_SIZE * MaxPixels), p \in PixelInputs : SetPixel(i, p)
  \/ \E x \in 0..(MaxPixels - 1), y \in 0..(MaxPixels - 1), p \in PixelInputs :
       SetPixelByCoord(x, y, p)

(***************************************************************************)
(* Claims about the image store                                            *)
(***************************************************************************)

\* C1: the histogram maps every pixel value of the buffer to the number of
\* pixels holding it, and has no entry for a value absent from the buffer.
C1_HistogramExact ==
  /\ DOMAIN image.histogram = PresentPixels(image)
  /\ \A p \in DOMAIN image.histogram : image.histogram[p] = Occurrences(image, p)

UsageExact ==
  /\ DOMAIN image.rgb_components_used = PresentChannels(image)
  /\ \A v \in DOMAIN image.rgb_components_used :
       image.rgb_components_used[v] = ChannelSlots(image, v)

\* C2: after a pixel write the channel-usage map holds, for every channel
\* value, the number of bytes of the buffer holding it, and max_value() is
\* the greatest channel value present in the buffer.
C2_UsageExact ==
  [][WriteStep => (UsageExact /\ max_value(image) = SetMax(PresentChannels(image)))']_vars

\* C3: whatever get_background returns occurs in the buffer at least as
\* often as every other pixel value.
C3_BackgroundDominant ==
  \A bg \in get_background(image) :
    \A p \in PresentPixels(image) : Occurrences(image, p) <= Occurrences(image, bg)

\* C4: a write made while keep_histogram_updated is false leaves both maps
\* unchanged; a write made while it is true, replacing a pixel by another
\* value, changes the histogram.
C4_FlagControlsMaintenance ==
  [][WriteStep =>
       IF image.keep_histogram_updated
         THEN (image'.pixels # image.pixels => image'.histogram # image.histogram)
         ELSE /\ image'.histogram = image.histogram
              /\ image'.rgb_components_used = image.rgb_components_used]_vars

\* a buffer of 3*w*h zero bytes, max_value() 255 and background black
FreshImage ==
  /\ Len(image.pixels) = 3 * width(image) * height(image)
  /\ \A i \in DOMAIN image.pixels : image.pixels[i] = 0
  /\ max_value(image) = 255
  /\ get_background(image) = {BLACK}

C6_BufferLength ==
  Len(image.pixels) = PIXEL_SIZE * width(image) * height(image)

(***************************************************************************)
(* Connected-component labelling (core/ccl.rs)                             *)
(***************************************************************************)
UNLABELED == 0

Connectivity == {"EIGHT", "FOUR", "NOS"}

NORTH == <<0, -1>>
NORTH_EAST == <<1, -1>>
EAST == <<1, 0>>
SOUTH_EAST == <<1, 1>>
SOUTH == <<0, 1>>
SOUTH_WEST == <<-1, 1>>
WEST == <<-1, 0>>
NORTH_WEST == <<-1, -1>>

\* to_1d!(x, y, width)
to_1d(px, py, w) == px + py * w

\* Option::None of an Option<PixelBytes<u8>>: a pixel has three bytes, None
\* has none
None == << >>

get_pixel_by_coord(img, px, py) ==
  LET i == get_index(px, py, width(img))
  IN  IF i < Len(img.pixels) THEN get_bytes_at(img, i) ELSE None

AbsDiff(a, b) == IF a < b THEN b - a ELSE a - b

\* 512 * c_squared of redmean_distance: (2 + r/256) dR^2 + 4 dG^2 +
\* (2 + (255 - r)/256) dB^2 with r = (R1 + R2) / 2, scaled to an integer
redmean_c_squared_512(pixel_one, pixel_two) ==
  LET rs == pixel_one[R_CH + 1] + pixel_two[R_CH + 1]
      d_r == AbsDiff(pixel_one[R_CH + 1], pixel_two[R_CH + 1])
      d_g == AbsDiff(pixel_one[G_CH + 1], pixel_two[G_CH + 1])
      d_b == AbsDiff(pixel_one[B_CH + 1], pixel_two[B_CH + 1])
  IN  (1024 + rs) * d_r * d_r + 2048 * d_g * d_g + (1534 - rs) * d_b * d_b

\* 512 * REDMEAN_MAX^2 / 100^2 = 29950.5176..., as integer part and
\* ten-thousandths
RedmeanUnitInt == 29950
RedmeanUnitFrac == 5176

\* redmean_distance(a, b) <= q / 100, in exact arithmetic:
\* 512 c^2 <= q^2 * 29950.5176
redmean_within(pixel_one, pixel_two, q) ==
  redmean_c_squared_512(pixel_one, pixel_two)
    <= q * q * RedmeanUnitInt + (q * q * RedmeanUnitFrac) \div 10000

\* the equivalence test without the exact comparison of tolerance 1.0:
\* colours within 0.1 of each other are taken as equivalent
is_neighbor_equivalent_within(pixel, neighbor_pixel, tolerance) ==
  redmean_within(pixel, neighbor_pixel, 10)

\* tolerance is given in hundredths (100 stands for 1.0)
is_neighbor_equivalent(pixel, neighbor_pixel, tolerance) ==
  IF 100 <= tolerance
    THEN pixel = neighbor_pixel
    ELSE redmean_within(pixel, neighbor_pixel, 100 - tolerance)

\* the shifts with EIGHT examining West and North only
Shifts_eight_as_four(c_type) ==
  CASE c_type = "NOS" -> <<NORTH, NORTH_EAST, EAST, SOUTH_EAST,
                           SOUTH, SOUTH_WEST, WEST, NORTH_WEST>>
    [] OTHER -> <<WEST, NORTH>>

Shifts(c_type) ==
  CASE c_type = "EIGHT" -> <<WEST, NORTH_WEST, NORTH, NORTH_EAST>>
    [] c_type = "FOUR" -> <<WEST, NORTH>>
    [] c_type = "NOS" -> <<NORTH, NORTH_EAST, EAST, SOUTH_EAST,
                           SOUTH, SOUTH_WEST, WEST, NORTH_WEST>>

\* a neighbour passing the test "n.0 >= 0 && n.0 < width && n.1 >= 1 &&
\* n.1 < height" of get_valid_neighbors
NeighborInRange(n, img) ==
  /\ n[1] >= 0
  /\ n[1] < width(img)
  /\ n[2] >= 1
  /\ n[2] < height(img)

\* the neighbours of (px, py) in the order of the shifts
get_valid_neighbors(px, py, img, c_type) ==
  LET shifts == Shifts(c_type)
      n_index == [k \in DOMAIN shifts |-> <<px + shifts[k][1], py + shifts[k][2]>>]
      InRange(n) == NeighborInRange(n, img)
  IN  SelectSeq(n_index, InRange)

SetMin(S) == CHOOSE m \in S : \A n \in S : m <= n

\* "for label in neighbor_labels { if let Some(linked) =
\* linked_labels.get_mut(label) { linked.extend(neighbor_labels) } }"
MergeLabels(linked_labels, neighbor_labels) ==
  [l \in DOMAIN linked_labels |->
     IF l \in neighbor_labels THEN linked_labels[l] \cup neighbor_labels
                              ELSE linked_labels[l]]

\* the first-pass body with the row test of get_valid_neighbors applied to
\* the pixel itself: pixels of row 0 are passed over
FirstPassPixel_skip_row_zero(st, img) ==
  LET pixel == get_pixel_by_coord(img, st.x, st.y)
      i == to_1d(st.x, st.y, width(img)) + 1
      possible_neighbors == get_valid_neighbors(st.x, st.y, img, st.c_type)
      valid_neighbors ==
        {k \in DOMAIN possible_neighbors :
           LET n == possible_neighbors[k]
           IN  /\ is_neighbor_equivalent(
                    pixel, get_pixel_by_coord(img, n[1], n[2]), st.tolerance)
               /\ st.labels[to_1d(n[1], n[2], width(img)) + 1] # UNLABELED}
      neighbor_labels ==
        {st.labels[to_1d(possible_neighbors[k][1], possible_neighbors[k][2],
                         width(img)) + 1] : k \in valid_neighbors}
  IN  IF pixel = st.bg_color \/ st.y < 1 THEN st
      ELSE IF valid_neighbors = {}
        THEN [st EXCEPT
               !.cur_label = st.cur_label + 1,
               !.linked_labels =
                  MapInsert(st.linked_labels, st.cur_label + 1, {st.cur_label + 1}),
               !.labels[i] = st.cur_label + 1]
        ELSE [st EXCEPT
               !.labels[i] = SetMin(neighbor_labels),
               !.linked_labels = MergeLabels(st.linked_labels, neighbor_labels)]

\* the locals of ccl after the body of the first-pass loop at (x, y)
FirstPassPixel(st, img) ==
  LET pixel == get_pixel_by_coord(img, st.x, st.y)
      i == to_1d(st.x, st.y, width(img)) + 1
      possible_neighbors == get_valid_neighbors(st.x, st.y, img, st.c_type)
      valid_neighbors ==
        {k \in DOMAIN possible_neighbors :
           LET n == possible_neighbors[k]
           IN  /\ is_neighbor_equivalent(
                    pixel, get_pixel_by_coord(img, n[1], n[2]), st.tolerance)
               /\ st.labels[to_1d(n[1], n[2], width(img)) + 1] # UNLABELED}
      neighbor_labels ==
        {st.labels[to_1d(possible_neighbors[k][1], possible_neighbors[k][2],
                         width(img)) + 1] : k \in valid_neighbors}
  IN  IF pixel = st.bg_color THEN st
      ELSE IF valid_neighbors = {}
        THEN [st EXCEPT
               !.cur_label = st.cur_label + 1,
               !.linked_labels =
                  MapInsert(st.linked_labels, st.cur_label + 1, {st.cur_label + 1}),
               !.labels[i] = st.cur_label + 1]
        ELSE [st EXCEPT
               !.labels[i] = SetMin(neighbor_labels),
               !.linked_labels = MergeLabels(st.linked_labels, neighbor_labels)]

\* the locals of ccl after the body of the second-pass loop at (x, y)
SecondPassPixel(st, img) ==
  LET i == to_1d(st.x, st.y, width(img)) + 1
      current_label == st.labels[i]
  IN  IF current_label # UNLABELED
        THEN [st EXCEPT !.labels[i] = SetMin(st.linked_labels[current_label])]
        ELSE st

\* the loop variables after "for y in 0..height { for x in 0..width {"
\* has advanced by one pixel; y = height when the loops have ended
Advance(st, img) ==
  IF st.x + 1 < width(img) THEN [st EXCEPT !.x = st.x + 1]
                           ELSE [st EXCEPT !.x = 0, !.y = st.y + 1]

\* the locals of ccl(image, c_type, tolerance) on entry to the first pass;
\* bg_color is any value get_background may return
CclEntry(img, c_type, tolerance, bg_color) ==
  [pc |-> "first",
   c_type |-> c_type,
   tolerance |-> tolerance,
   linked_labels |-> EmptyMap,
   labels |-> [k \in 1..(width(img) * height(img)) |-> UNLABELED],
   cur_label |-> UNLABELED + 1,
   bg_color |-> bg_color,
   x |-> 0,
   y |-> 0]

\* one iteration of the first pass; the second pass starts after the last
FirstPass ==
  /\ ccl.pc = "first"
  /\ LET st == Advance(FirstPassPixel(ccl, image), image)
     IN  ccl' = IF st.y < height(image) THEN st
                ELSE [st EXCEPT !.pc = "second", !.x = 0, !.y = 0]
  /\ UNCHANGED <<image, index, op>>

\* one iteration of the second pass; ccl returns (labels, cur_label) after
\* the last
SecondPass ==
  /\ ccl.pc = "second"
  /\ LET st == Advance(SecondPassPixel(ccl, image), image)
     IN  ccl' = IF st.y < height(image) THEN st
                ELSE [st EXCEPT !.pc = "done"]
  /\ UNCHANGED <<image, index, op>>

\* the value ccl returns
CclLabels == ccl.labels
CclCount == ccl.cur_label

(***************************************************************************)
(* The images ccl is run on: read pixel by pixel into a new image, as      *)
(* read_other (core/io.rs) does.                                           *)
(***************************************************************************)
RECURSIVE ReadPixels(_, _, _)
ReadPixels(img, content, k) ==
  IF k > Len(content) THEN img
  ELSE ReadPixels(set_pixel(img, PIXEL_SIZE * (k - 1), content[k]), content, k + 1)

read_other(w, h, content) == ReadPixels(PpmImage_new(w, h), content, 1)

\* the images of the labelling specification hold at most MaxCclPixels pixels
MaxCclPixels == 6

CRIMSON == <<250, 0, 0>>
CclColors == {BLACK, RED, CRIMSON}

\* tolerances 1.0 and 0.9; RED and CRIMSON are within 0.1 of each other
Tolerances == {100, 90}

CclDims ==
  {d \in (1..MaxCclPixels) \X (1..MaxCclPixels) : d[1] * d[2] <= MaxCclPixels}

InitCcl ==
  /\ \E d \in CclDims :
       \E content \in [1..(d[1] * d[2]) -> CclColors] :
         image = read_other(d[1], d[2], content)
  /\ index = PIXEL_SIZE * width(image) * height(image)
  /\ \E c_type \in Connectivity, tolerance \in Tolerances :
       \E bg_color \in get_background(image) :
         ccl = CclEntry(image, c_type, tolerance, bg_color)
  /\ op = NotCalled

NextCcl == FirstPass \/ SecondPass

SpecCcl == InitCcl /\ [][NextCcl]_vars

\* the labelling specification on images large enough for a chain of merges
ChainWidth == 3
ChainHeight == 4
ChainColors == {BLACK, RED}

InitChain ==
  /\ \E content \in [1..(ChainWidth * ChainHeight) -> ChainColors] :
       image = read_other(ChainWidth, ChainHeight, content)
  /\ index = PIXEL_SIZE * width(image) * height(image)
  /\ \E c_type \in Connectivity :
       \E bg_color \in get_background(image) :
         ccl = CclEntry(image, c_type, 100, bg_color)
  /\ op = NotCalled

SpecChain == InitChain /\ [][NextCcl]_vars

(***************************************************************************)
(* Claims about connected-component labelling                              *)
(***************************************************************************)
Range(seq) == {seq[k] : k \in DOMAIN seq}

\* the raster positions 0..w*h-1 of the image and their pixels
Positions == 0..(width(image) * height(image) - 1)

PixelOf(k) == get_bytes_at(image, PIXEL_SIZE * k)

PositionsOf(p) == {k \in Positions : PixelOf(k) = p}

\* raster positions that share an edge
Adjacent4(j, k) ==
  LET w == width(image)
  IN  \/ j \div w = k \div w /\ AbsDiff(j % w, k % w) = 1
      \/ j % w = k % w /\ AbsDiff(j \div w, k \div w) = 1

RECURSIVE Reach4(_, _)
Reach4(S, P) ==
  LET T == S \cup {k \in P : \E j \in S : Adjacent4(j, k)}
  IN  IF T = S THEN S ELSE Reach4(T, P)

\* P is one region: non-empty and connected through shared edges
IsRegion(P) == P # {} /\ \E k \in P : Reach4({k}, P) = P

\* an image of exactly three colours: bg, the most frequent, and the
\* colours a and b, each forming one region
TwoRegionsOn(bg, a, b) ==
  /\ a # b /\ a # bg /\ b # bg
  /\ PresentPixels(image) = {bg, a, b}
  /\ Cardinality(PositionsOf(bg)) > Cardinality(PositionsOf(a))
  /\ Cardinality(PositionsOf(bg)) > Cardinality(PositionsOf(b))
  /\ IsRegion(PositionsOf(a))
  /\ IsRegion(PositionsOf(b))

\* C7: at tolerance 1.0, on two regions of distinct colours against a more
\* frequent background, the returned labels are 0 on the background, one
\* label on each region, and the two labels differ, in every mode.
C7_TwoRegionsTwoLabels ==
  (ccl.pc = "done" /\ ccl.tolerance = 100) =>
    \A bg \in CclColors, a \in CclColors, b \in CclColors :
      TwoRegionsOn(bg, a, b) =>
        \E la \in 1..ccl.cur_label, lb \in 1..ccl.cur_label :
          /\ la # lb
          /\ \A k \in PositionsOf(a) : CclLabels[k + 1] = la
          /\ \A k \in PositionsOf(b) : CclLabels[k + 1] = lb
          /\ \A k \in PositionsOf(bg) : CclLabels[k + 1] = UNLABELED

\* the labels equivalent to l: the transitive closure of the merges
\* recorded in linked_labels
RECURSIVE LinkedClosure(_)
LinkedClosure(S) ==
  LET T == S \cup UNION {ccl.linked_labels[l] : l \in S}
  IN  IF T = S THEN S ELSE LinkedClosure(T)

EquivalenceClass(l) == LinkedClosure({l})

\* the raster positions the second pass has rewritten
SecondPassDone ==
  IF ccl.pc = "done" THEN Positions
  ELSE IF ccl.pc = "second"
    THEN {k \in Positions : k < to_1d(ccl.x, ccl.y, width(image))}
    ELSE {}

\* C8: every label written by the second pass is the smallest label of its
\* equivalence class, so pixels whose labels are linked by a chain of
\* merges end with the same label.
C8_CanonicalLabels ==
  /\ \A k \in SecondPassDone :
       CclLabels[k + 1] # UNLABELED =>
         CclLabels[k + 1] = SetMin(EquivalenceClass(CclLabels[k + 1]))
  /\ \A j \in SecondPassDone, k \in SecondPassDone :
       (/\ CclLabels[j + 1] # UNLABELED
        /\ CclLabels[k + 1] # UNLABELED
        /\ CclLabels[k + 1] \in EquivalenceClass(CclLabels[j + 1]))
         => CclLabels[j + 1] = CclLabels[k + 1]

\* C9: the count returned is the number of distinct non-zero labels of the
\* returned label array.
C9_CountIsDistinctLabels ==
  ccl.pc = "done" => CclCount = Cardinality(Range(CclLabels) \ {UNLABELED})

\* the offsets the claim gives for a mode
ClaimedOffsets(c_type) ==
  IF c_type = "FOUR" THEN {<<-1, 0>>, <<0, -1>>}
  ELSE {<<-1, 0>>, <<-1, -1>>, <<0, -1>>, <<1, -1>>}

\* the pixels of the image at the claimed offsets from (px, py)
InBoundsNeighbors(px, py, c_type) ==
  {n \in {<<px + o[1], py + o[2]>> : o \in ClaimedOffsets(c_type)} :
     /\ 0 <= n[1] /\ n[1] < width(image)
     /\ 0 <= n[2] /\ n[2] < height(image)}

\* C10: for a non-background pixel of the first pass, FOUR examines the
\* in-bounds pixels West and North, EIGHT those West, North-West, North and
\* North-East, row 0 included.
C10_NeighborsExamined ==
  (/\ ccl.pc = "first"
   /\ ccl.c_type \in {"FOUR", "EIGHT"}
   /\ get_pixel_by_coord(image, ccl.x, ccl.y) # ccl.bg_color) =>
    Range(get_valid_neighbors(ccl.x, ccl.y, image, ccl.c_type))
      = InBoundsNeighbors(ccl.x, ccl.y, ccl.c_type)

\* C11: in the label array ccl returns, a pixel has label 0 exactly when
\* its colour is the background colour get_background() gave: background
\* pixels are never labelled, every other pixel has a non-zero label.
C11_ZeroIffBackground ==
  ccl.pc = "done" =>
    /\ ccl.bg_color \in get_background(image)
    /\ \A k \in Positions :
         CclLabels[k + 1] = UNLABELED <=> PixelOf(k) = ccl.bg_color

\* a returned label array with an unlabelled background pixel and a
\* labelled pixel of another colour in row 0
C11_Witness ==
  /\ ccl.pc = "done"
  /\ \E j \in Positions, k \in Positions :
       /\ PixelOf(j) = ccl.bg_color /\ CclLabels[j + 1] = UNLABELED
       /\ k < width(image)
       /\ PixelOf(k) # ccl.bg_color /\ CclLabels[k + 1] # UNLABELED

(***************************************************************************)
(* f32 arithmetic.  A finite f32 is the record [neg, man, exp] standing    *)
(* for (-1)^neg * man * 2^exp with 2^23 <= man < 2^24, or man = 0 for      *)
(* zero (the sign of zero is not kept: no computation modelled here        *)
(* tells -0.0 from 0.0).  Every operation gives the correctly rounded      *)
(* result, ties to even, as IEEE 754 binary32 does; the values modelled    *)
(* stay far from the subnormal and the overflow range, and no division by  *)
(* zero is reached.  All intermediate integers stay below 2^31.            *)
(***************************************************************************)
Pow2(n) == 2 ^ n

\* the number of bits of n, for 0 < n < 2^31
BitLen(n) == CHOOSE k \in 1..31 : Pow2(k - 1) <= n /\ (k = 31 \/ n < Pow2(k))

F32_ZERO == [neg |-> FALSE, man |-> 0, exp |-> 0]

\* the f32 nearest to (-1)^neg * (n + s) * 2^e, where 0 <= s < 1 and s > 0
\* exactly when sticky; n has at least 26 bits whenever sticky
f32_nearest(neg, n, e, sticky) ==
  IF n = 0 THEN F32_ZERO
  ELSE LET len == BitLen(n)
           k == len - 24
           q == n \div Pow2(k)
           r == n % Pow2(k)
           half == Pow2(k - 1)
           up == r > half \/ (r = half /\ (sticky \/ q % 2 = 1))
       IN  IF len <= 24
             THEN [neg |-> neg, man |-> n * Pow2(24 - len), exp |-> e - (24 - len)]
           ELSE IF up /\ q + 1 = Pow2(24)
             THEN [neg |-> neg, man |-> Pow2(23), exp |-> e + k + 1]
           ELSE [neg |-> neg, man |-> IF up THEN q + 1 ELSE q, exp |-> e + k]

\* "n as f32" for an integer n
to_f32(n) == f32_nearest(n < 0, IF n < 0 THEN -n ELSE n, 0, FALSE)

f32_neg(a) == IF a.man = 0 THEN a ELSE [a EXCEPT !.neg = ~a.neg]

\* a * b: the 48-bit product of the mantissas is hi * 2^24 + lo
f32_mul(a, b) ==
  LET a1 == a.man \div 4096
      a0 == a.man % 4096
      b1 == b.man \div 4096
      b0 == b.man % 4096
      mid == a1 * b0 + a0 * b1
      low == a0 * b0 + (mid % 4096) * 4096
      hi == a1 * b1 + mid \div 4096 + low \div Pow2(24)
      lo == low % Pow2(24)
  IN  IF a.man = 0 \/ b.man = 0 THEN F32_ZERO
      ELSE f32_nearest(a.neg # b.neg, hi * 64 + lo \div Pow2(18),
                       a.exp + b.exp + 18, lo % Pow2(18) # 0)

\* n further bits of the quotient r / d, for r < d, appended to q
RECURSIVE LongDivide(_, _, _, _)
LongDivide(q, r, d, n) ==
  IF n = 0 THEN <<q, r>>
  ELSE IF 2 * r >= d THEN LongDivide(2 * q + 1, 2 * r - d, d, n - 1)
  ELSE LongDivide(2 * q, 2 * r, d, n - 1)

\* a / b for b # 0: 27 bits of the quotient of the mantissas
f32_div(a, b) ==
  LET qr == LongDivide(a.man \div b.man, a.man % b.man, b.man, 26)
  IN  IF a.man = 0 THEN F32_ZERO
      ELSE f32_nearest(a.neg # b.neg, qr[1], a.exp - b.exp - 26, qr[2] # 0)

\* a + b: the operand of smaller exponent is aligned to six bits below the
\* other mantissa, the bits shifted out are kept as sticky
f32_add(a, b) ==
  LET hi == IF a.exp >= b.exp THEN a ELSE b
      lo == IF a.exp >= b.exp THEN b ELSE a
      d == hi.exp - lo.exp
      exact == (IF hi.neg THEN -hi.man ELSE hi.man) * Pow2(d)
                 + (IF lo.neg THEN -lo.man ELSE lo.man)
      k == d - 6
      big == hi.man * 64
      small == IF k >= 24 THEN 0 ELSE lo.man \div Pow2(k)
      sticky == IF k >= 24 THEN TRUE ELSE lo.man % Pow2(k) # 0
  IN  IF a.man = 0 THEN b
      ELSE IF b.man = 0 THEN a
      ELSE IF d <= 6
        THEN f32_nearest(exact < 0, IF exact < 0 THEN -exact ELSE exact,
                         lo.exp, FALSE)
      ELSE IF hi.neg = lo.neg
        THEN f32_nearest(hi.neg, big + small, hi.exp - 6, sticky)
      ELSE f32_nearest(hi.neg, IF sticky THEN big - small - 1 ELSE big - small,
                       hi.exp - 6, sticky)

f32_sub(a, b) == f32_add(a, f32_neg(b))

\* the integer part of |a|
IntegerPart(a) ==
  IF a.exp >= 0 THEN a.man * Pow2(a.exp)
  ELSE IF -a.exp >= 24 THEN 0
  ELSE a.man \div Pow2(-a.exp)

\* |a| is not an integer
HasFraction(a) ==
  /\ a.man # 0
  /\ a.exp < 0
  /\ (-a.exp < 24 => a.man % Pow2(-a.exp) # 0)

\* a.floor()
f32_floor(a) ==
  IF a.exp >= 0 THEN a
  ELSE
  to_f32(IF a.neg THEN -(IntegerPart(a) + (IF HasFraction(a) THEN 1 ELSE 0))
         ELSE IntegerPart(a))

\* a.round(): halves round away from zero
f32_round(a) ==
  LET magnitude ==
        IF -a.exp > 24 THEN 0
        ELSE (a.man + Pow2(-a.exp - 1)) \div Pow2(-a.exp)
  IN  IF a.exp >= 0 THEN a
      ELSE to_f32(IF a.neg THEN -magnitude ELSE magnitude)

\* "a as i32": the fraction is dropped
as_i32(a) == IF a.neg THEN -IntegerPart(a) ELSE IntegerPart(a)

\* "a as u32" and "a as usize": the fraction is dropped, a negative value
\* becomes 0
as_u32(a) == IF a.neg THEN 0 ELSE IntegerPart(a)

\* "a as u8": the fraction is dropped and the cast saturates
as_u8(a) ==
  IF a.neg THEN 0
  ELSE IF a.man # 0 /\ a.exp >= 0 THEN U8_MAX
  ELSE IF IntegerPart(a) > U8_MAX THEN U8_MAX
  ELSE IntegerPart(a)

\* a % n for an integer n > 0: the exact remainder, with the sign of a
f32_rem(a, n) ==
  IF a.man = 0 THEN a
  ELSE IF a.exp >= 0
    THEN to_f32((IF a.neg THEN -1 ELSE 1) * ((a.man * Pow2(a.exp)) % n))
  ELSE IF -a.exp >= 24 THEN a
  ELSE f32_nearest(a.neg, a.man % (n * Pow2(-a.exp)), a.exp, FALSE)

(***************************************************************************)
(* Image operations (core/operations.rs).  An OperationResult is Ok(image) *)
(* or Err(message); a call that indexes outside a buffer panics.  Widths   *)
(* and heights are u32, here far below the range where u32 arithmetic       *)
(* wraps.                                                                  *)
(***************************************************************************)
Ok(img) == [tag |-> "Ok", image |-> img]

Err(msg) == [tag |-> "Err", msg |-> msg]

Panic == [tag |-> "Panic"]

OpTypes == {"Add", "Subtract", "Multiply"}

ResizeAlgorithms == {"NearestNeighbor", "BilinearInterpolation"}

\* mult_safe without the overflow test: "temp as u8" keeps the low byte
mult_safe_wrapping(lhs, rhs) ==
  LET temp == lhs * rhs
  IN  temp % (U8_MAX + 1)

mult_safe(lhs, rhs) ==
  LET temp == lhs * rhs
  IN  IF temp > U8_MAX THEN U8_MAX ELSE temp

add_safe(lhs, rhs) ==
  LET temp == lhs + rhs
  IN  IF temp > U8_MAX THEN U8_MAX ELSE temp

sub_safe(lhs, rhs) ==
  LET temp == lhs - rhs
  IN  IF temp > U8_MAX THEN U8_MAX
      ELSE IF temp < 0 THEN 0
      ELSE temp

\* operation_fn without the Subtract arm: the default add_safe stays
operation_fn_default_add(optype, lhs, rhs) ==
  IF optype = "Multiply" THEN mult_safe(lhs, rhs) ELSE add_safe(lhs, rhs)

\* the function "match optype" selects, applied to a channel pair
operation_fn(optype, lhs, rhs) ==
  CASE optype = "Add" -> add_safe(lhs, rhs)
    [] optype = "Subtract" -> sub_safe(lhs, rhs)
    [] optype = "Multiply" -> mult_safe(lhs, rhs)

\* self.pixels[index], [index + 1], [index + 2] are inside the buffer
PixelInBuffer(img, i) == PIXEL_SIZE * i + PIXEL_SIZE <= Len(img.pixels)

get_pixel_at(img, i) == get_bytes_at(img, i * PIXEL_SIZE)

\* the body of "for ch in COLOR_CHANNELS" reading the left operand twice
output_pixel_lhs_twice(lhs_copy, rhs_copy, i, optype) ==
  <<operation_fn(optype, get_pixel_at(lhs_copy, i)[R_CH + 1],
                 get_pixel_at(lhs_copy, i)[R_CH + 1]),
    operation_fn(optype, get_pixel_at(lhs_copy, i)[G_CH + 1],
                 get_pixel_at(lhs_copy, i)[G_CH + 1]),
    operation_fn(optype, get_pixel_at(lhs_copy, i)[B_CH + 1],
                 get_pixel_at(lhs_copy, i)[B_CH + 1])>>

\* output_pixel after "for ch in COLOR_CHANNELS { ... }"
output_pixel(lhs_copy, rhs_copy, i, optype) ==
  <<operation_fn(optype, get_pixel_at(lhs_copy, i)[R_CH + 1],
                 get_pixel_at(rhs_copy, i)[R_CH + 1]),
    operation_fn(optype, get_pixel_at(lhs_copy, i)[G_CH + 1],
                 get_pixel_at(rhs_copy, i)[G_CH + 1]),
    operation_fn(optype, get_pixel_at(lhs_copy, i)[B_CH + 1],
                 get_pixel_at(rhs_copy, i)[B_CH + 1])>>

\* friendly_scale_match rounding the mean up
friendly_scale_match_ceil(w1, h1, w2, h2) ==
  IF w1 = w2 /\ h1 = h2 THEN <<w1, h1>>
  ELSE <<(w1 + w2 + 1) \div 2, (h1 + h2 + 1) \div 2>>

friendly_scale_match(w1, h1, w2, h2) ==
  IF w1 = w2 /\ h1 = h2 THEN <<w1, h1>>
  ELSE <<(w1 + w2) \div 2, (h1 + h2) \div 2>>

clamp_color(num) == IF num > U8_MAX THEN U8_MAX ELSE num

\* the body of the loops "for i in 0..height { for j in 0..width {" of
\* nearest_neighbor at raster position k = i * width + j; acc is Ok(new_image)
\* or Panic
NearestNeighborPixel(acc, img, new_width, new_height, k) ==
  LET i == k \div new_width
      j == k % new_width
      x_ratio == f32_div(to_f32(width(img)), to_f32(new_width))
      y_ratio == f32_div(to_f32(height(img)), to_f32(new_height))
      px == f32_floor(f32_mul(to_f32(j), x_ratio))
      py == f32_floor(f32_mul(to_f32(i), y_ratio))
      at == as_u32(f32_add(f32_mul(py, to_f32(width(img))), px))
  IN  IF acc.tag # "Ok" \/ ~PixelInBuffer(img, at) THEN Panic
      ELSE Ok(set_pixel_by_coord(acc.image, j, i, get_pixel_at(img, at)))

\* the iterations lo .. hi - 1 of the loops, in order: those below mid,
\* then the others
RECURSIVE NearestNeighborRange(_, _, _, _, _, _)
NearestNeighborRange(acc, img, new_width, new_height, lo, hi) ==
  LET mid == (lo + hi) \div 2
      first == NearestNeighborRange(acc, img, new_width, new_height, lo, mid)
  IN  IF hi <= lo THEN acc
      ELSE IF hi = lo + 1
        THEN NearestNeighborPixel(acc, img, new_width, new_height, lo)
      ELSE IF first.tag # "Ok" THEN Panic
      ELSE NearestNeighborRange(first, img, new_width, new_height, mid, hi)

nearest_neighbor(img, new_width, new_height) ==
  NearestNeighborRange(Ok(PpmImage_new(new_width, new_height)), img,
                       new_width, new_height, 0, new_width * new_height)

lerp(s, e, t) == f32_add(s, f32_mul(f32_sub(e, s), t))

blerp(xa, xb, ya, yb, tx, ty) == lerp(lerp(xa, xb, tx), lerp(ya, yb, tx), ty)

\* the channels of the pixel at (x, y) as floats, (0., 0., 0.) when
\* get_pixel_by_coord gives None
get_pixel_as_float(img, x, y) ==
  LET i == get_index(x, y, width(img))
      pixel == get_bytes_at(img, i)
  IN  IF i < Len(img.pixels)
        THEN <<to_f32(pixel[R_CH + 1]), to_f32(pixel[G_CH + 1]),
               to_f32(pixel[B_CH + 1])>>
        ELSE <<F32_ZERO, F32_ZERO, F32_ZERO>>

\* the pixel [r, g, b] the loop body of bilinear_interpolation writes at
\* (x, y)
BilinearPixel(img, new_width, new_height, x, y) ==
  LET gx == f32_mul(f32_div(to_f32(x), to_f32(new_width)),
                    f32_sub(to_f32(width(img)), to_f32(1)))
      gy == f32_mul(f32_div(to_f32(y), to_f32(new_height)),
                    f32_sub(to_f32(height(img)), to_f32(1)))
      gxi == as_i32(gx)
      gyi == as_i32(gy)
      a == get_pixel_as_float(img, gxi, gyi)
      b == get_pixel_as_float(img, gxi + 1, gyi)
      c == get_pixel_as_float(img, gxi, gyi + 1)
      d == get_pixel_as_float(img, gxi + 1, gyi + 1)
      tx == f32_sub(gx, to_f32(gxi))
      ty == f32_sub(gy, to_f32(gyi))
      Channel(ch) ==
        clamp_color(as_u32(f32_round(
          blerp(a[ch + 1], b[ch + 1], c[ch + 1], d[ch + 1], tx, ty))))
  IN  <<Channel(R_CH), Channel(G_CH), Channel(B_CH)>>

\* the iterations lo .. hi - 1 of the loops "for y in 0..height { for x in
\* 0..width {" of bilinear_interpolation, in order: those below mid, then
\* the others; iteration k is at y = k / width, x = k % width, and acc is
\* Ok(new_image)
RECURSIVE BilinearRange(_, _, _, _, _, _)
BilinearRange(acc, img, new_width, new_height, lo, hi) ==
  LET mid == (lo + hi) \div 2
      y == lo \div new_width
      x == lo % new_width
      first == BilinearRange(acc, img, new_width, new_height, lo, mid)
  IN  IF hi <= lo THEN acc
      ELSE IF hi = lo + 1
        THEN Ok(set_pixel_by_coord(acc.image, x, y,
                  BilinearPixel(img, new_width, new_height, x, y)))
      ELSE IF first.tag # "Ok" THEN first
      ELSE BilinearRange(first, img, new_width, new_height, mid, hi)

bilinear_interpolation(img, new_width, new_height) ==
  BilinearRange(Ok(PpmImage_new(new_width, new_height)), img,
                new_width, new_height, 0, new_width * new_height)

\* resize without the test for equal dimensions
resize_always_resamples(img, new_width, new_height, resize_algo) ==
  LET resize_algorithm ==
        IF resize_algo = "None" THEN "NearestNeighbor" ELSE resize_algo
  IN  IF new_width = 0 \/ new_height = 0
        THEN Err("The image cannot have height or width be zero.")
      ELSE IF resize_algorithm = "NearestNeighbor"
        THEN nearest_neighbor(img, new_width, new_height)
      ELSE bilinear_interpolation(img, new_width, new_height)

\* resize_algo is "None" or Some(algorithm); image.clone() is the image
resize(img, new_width, new_height, resize_algo) ==
  LET resize_algorithm ==
        IF resize_algo = "None" THEN "NearestNeighbor" ELSE resize_algo
  IN  IF width(img) = new_width /\ height(img) = new_height THEN Ok(img)
      ELSE IF new_width = 0 \/ new_height = 0
        THEN Err("The image cannot have height or width be zero.")
      ELSE IF resize_algorithm = "NearestNeighbor"
        THEN nearest_neighbor(img, new_width, new_height)
      ELSE bilinear_interpolation(img, new_width, new_height)

\* the locals of perform_operation(lhs, rhs, optype) after
\* friendly_scale_match
PerformOperationEntry(lhs, rhs, optype) ==
  LET wh == friendly_scale_match(width(lhs), height(lhs),
                                 width(rhs), height(rhs))
  IN  [pc |-> "resize",
       rhs |-> rhs,
       optype |-> optype,
       w |-> wh[1],
       h |-> wh[2],
       lhs_copy |-> lhs,
       rhs_copy |-> rhs,
       result |-> [tag |-> "None"]]

\* "if either resize operation failed, bubble up the error and stop" taking
\* the copies although the right resize failed
BubbleUp_left_checked(st, left_resize, right_resize) ==
  IF left_resize.tag # "Ok"
    THEN [st EXCEPT !.pc = "done", !.result = left_resize]
  ELSE IF right_resize.tag # "Ok"
    THEN [st EXCEPT !.pc = "done", !.result = Panic]
  ELSE [st EXCEPT !.pc = "combine",
                  !.lhs_copy = left_resize.image,
                  !.rhs_copy = right_resize.image]

\* "if either resize operation failed, bubble up the error and stop", then
\* the results are unwrapped into lhs_copy and rhs_copy
BubbleUp(st, left_resize, right_resize) ==
  IF left_resize.tag # "Ok"
    THEN [st EXCEPT !.pc = "done", !.result = left_resize]
  ELSE IF right_resize.tag # "Ok"
    THEN [st EXCEPT !.pc = "done", !.result = right_resize]
  ELSE [st EXCEPT !.pc = "combine",
                  !.lhs_copy = left_resize.image,
                  !.rhs_copy = right_resize.image]

\* the locals after "if lhs.width() != rhs.width() || lhs.height() !=
\* rhs.height() { ... }"; pc is "done" when the function has returned
ResizeOperands(st, lhs) ==
  IF width(lhs) # width(st.rhs) \/ height(lhs) # height(st.rhs)
    THEN BubbleUp(st, resize(lhs, st.w, st.h, "BilinearInterpolation"),
                  resize(st.rhs, st.w, st.h, "BilinearInterpolation"))
    ELSE [st EXCEPT !.pc = "combine"]

\* "for i in 0..ppm_pixel_capacity { ... }" from pixel i on; pixel_index is
\* PIXEL_SIZE * i
RECURSIVE CombineFrom(_, _, _, _, _, _)
CombineFrom(new_image, lhs_copy, rhs_copy, optype, i, ppm_pixel_capacity) ==
  IF i >= ppm_pixel_capacity THEN Ok(new_image)
  ELSE IF ~PixelInBuffer(lhs_copy, i) \/ ~PixelInBuffer(rhs_copy, i)
    THEN Panic
  ELSE CombineFrom(
         set_pixel(new_image, PIXEL_SIZE * i,
                   output_pixel(lhs_copy, rhs_copy, i, optype)),
         lhs_copy, rhs_copy, optype, i + 1, ppm_pixel_capacity)

\* the locals when perform_operation returns from its last line
CombineOperands(st) ==
  [st EXCEPT !.pc = "done",
             !.result = CombineFrom(PpmImage_new(st.w, st.h), st.lhs_copy,
                                    st.rhs_copy, st.optype, 0, st.w * st.h)]

perform_operation(lhs, rhs, optype) ==
  LET st == ResizeOperands(PerformOperationEntry(lhs, rhs, optype), lhs)
  IN  IF st.pc = "done" THEN st.result ELSE CombineOperands(st).result

(***************************************************************************)
(* resize as a state machine: a caller holding an image calls resize once. *)
(***************************************************************************)
\* the source images hold at most MaxResizePixels pixels, in two colours
MaxResizePixels == 2

ResizeColors == {RED, NAVY}

\* the target dimensions go up to MaxTarget, and one target is WideWidth
\* pixels wide
MaxTarget == 3

WideWidth == 82

ResizeDims ==
  {d \in (0..MaxResizePixels) \X (0..MaxResizePixels) :
     d[1] * d[2] <= MaxResizePixels}

ResizeTargets == ((0..MaxTarget) \X (0..MaxTarget)) \cup {<<WideWidth, 1>>}

InitResize ==
  /\ \E d \in ResizeDims :
       \E content \in [1..(d[1] * d[2]) -> ResizeColors] :
         image = read_other(d[1], d[2], content)
  /\ index = PIXEL_SIZE * width(image) * height(image)
  /\ ccl = NotCalled
  /\ op = NotCalled

\* resize(&image, new_width, new_height, resize_algo) returns
Resize(new_width, new_height, resize_algo) ==
  /\ op.pc = "idle"
  /\ op' = [pc |-> "done",
            width |-> new_width,
            height |-> new_height,
            resize_algo |-> resize_algo,
            result |-> resize(image, new_width, new_height, resize_algo)]
  /\ UNCHANGED <<image, index, ccl>>

NextResize ==
  \E d \in ResizeTargets, resize_algo \in ResizeAlgorithms \cup {"None"} :
    Resize(d[1], d[2], resize_algo)

SpecResize == InitResize /\ [][NextResize]_vars

(***************************************************************************)
(* Claims about resize                                                     *)
(***************************************************************************)

\* C12: resize returns an error whenever the target width or the target
\* height is zero, whatever the source image and the algorithm, also when
\* the source has the same zero dimension.
C12_ZeroTargetIsError ==
  (op.pc = "done" /\ (op.width = 0 \/ op.height = 0)) => op.result.tag = "Err"

\* C13: resize to the dimensions of the source returns, for either
\* algorithm or None, an image of the same dimensions whose buffer is
\* identical to the source's, and leaves the source unchanged.
C13_SameSizeIsCopy ==
  [][(/\ op.pc = "idle"
      /\ op'.pc = "done"
      /\ op'.width = width(image)
      /\ op'.height = height(image)) =>
       (/\ op'.result.tag = "Ok"
        /\ width(op'.result.image) = width(image)
        /\ height(op'.result.image) = height(image)
        /\ op'.result.image.pixels = image.pixels
        /\ image' = image)]_vars

\* a two-pixel image of two colours resized to its own dimensions with
\* bilinear interpolation
C13_Witness ==
  /\ op.pc = "done"
  /\ op.resize_algo = "BilinearInterpolation"
  /\ op.width = width(image)
  /\ op.height = height(image)
  /\ Len(image.pixels) = 2 * PIXEL_SIZE
  /\ get_pixel_at(image, 0) # get_pixel_at(image, 1)
  /\ op.result.tag = "Ok"

\* C14: nearest-neighbour resize (chosen or by default) of a sw x sh image
\* to dw x dh, all at least 1, returns a dw x dh image whose pixel (x, y) is
\* the source pixel (floor(x*sw/dw), floor(y*sh/dh)), and reads nothing
\* outside the source buffer.
C14_NearestNeighborMap ==
  (/\ op.pc = "done"
   /\ op.resize_algo \in {"NearestNeighbor", "None"}
   /\ width(image) >= 1 /\ height(image) >= 1
   /\ op.width >= 1 /\ op.height >= 1) =>
    /\ op.result.tag = "Ok"
    /\ width(op.result.image) = op.width
    /\ height(op.result.image) = op.height
    /\ Len(op.result.image.pixels) = PIXEL_SIZE * op.width * op.height
    /\ \A x \in 0..(op.width - 1), y \in 0..(op.height - 1) :
         get_bytes_at(op.result.image, get_index(x, y, op.width))
           = get_bytes_at(image,
               get_index((x * width(image)) \div op.width,
                         (y * height(image)) \div op.height, width(image)))

(***************************************************************************)
(* perform_operation as a state machine: the operands are resized, then    *)
(* combined.  image is the left operand, op.rhs the right one.             *)
(***************************************************************************)
\* the operands hold at most MaxOpPixels pixels, in two colours
MaxOpPixels == 3

DIM == <<0, 1, 30>>
PALE == <<255, 255, 30>>
OpColors == {DIM, PALE}

OpDims ==
  {d \in (0..MaxOpPixels) \X (0..MaxOpPixels) : d[1] * d[2] <= MaxOpPixels}

OpImages ==
  UNION {{read_other(d[1], d[2], content) :
            content \in [1..(d[1] * d[2]) -> OpColors]} : d \in OpDims}

InitOps ==
  /\ image \in OpImages
  /\ index = PIXEL_SIZE * width(image) * height(image)
  /\ ccl = NotCalled
  /\ \E rhs \in OpImages, optype \in OpTypes :
       op = PerformOperationEntry(image, rhs, optype)

\* the operands are resized to the common dimensions, or the function
\* returns the error of a resize
PerformOperationResize ==
  /\ op.pc = "resize"
  /\ op' = ResizeOperands(op, image)
  /\ UNCHANGED <<image, index, ccl>>

\* the operands are combined and the function returns
PerformOperationCombine ==
  /\ op.pc = "combine"
  /\ op' = CombineOperands(op)
  /\ UNCHANGED <<image, index, ccl>>

NextOps == PerformOperationResize \/ PerformOperationCombine

SpecOps == InitOps /\ [][NextOps]_vars

(***************************************************************************)
(* Claims about perform_operation                                          *)
(***************************************************************************)
\* the operands of the call have the same width and the same height
EqualSize == width(image) = width(op.rhs) /\ height(image) = height(op.rhs)

\* the saturated combination of the channel values a (lhs) and b (rhs)
Saturated(optype, a, b) ==
  CASE optype = "Add" -> SetMin({255, a + b})
    [] optype = "Multiply" -> SetMin({255, a * b})
    [] optype = "Subtract" -> SetMax({0, a - b})

\* C15: for operands of equal size the result has their size, and every
\* channel of every pixel is min(255, a+b) for Add, min(255, a*b) for
\* Multiply and max(0, a-b) for Subtract; 30 x 30 gives 255, 1 x 255 gives
\* 255 and 0 x anything gives 0.
C15_SaturatedCombination ==
  /\ mult_safe(30, 30) = 255
  /\ mult_safe(1, 255) = 255
  /\ \A b \in 0..255 : mult_safe(0, b) = 0
  /\ (op.pc = "done" /\ EqualSize) =>
       /\ op.result.tag = "Ok"
       /\ width(op.result.image) = width(image)
       /\ height(op.result.image) = height(image)
       /\ Len(op.result.image.pixels) = Len(image.pixels)
       /\ \A k \in DOMAIN image.pixels :
            op.result.image.pixels[k]
              = Saturated(op.optype, image.pixels[k], op.rhs.pixels[k])

\* a product of two equal-size operands with the channel pairs 30 x 30,
\* 1 x 255 and 0 x 255
C15_Witness ==
  /\ op.pc = "done"
  /\ op.optype = "Multiply"
  /\ EqualSize
  /\ op.result.tag = "Ok"
  /\ \E i \in 0..(PixelCount(image) - 1) :
       /\ get_pixel_at(image, i) = DIM
       /\ get_pixel_at(op.rhs, i) = PALE
       /\ get_pixel_at(op.result.image, i) = <<0, 255, 255>>

\* C16: perform_operation(img, img, Subtract) succeeds for every image and
\* returns an image of the same width and height whose bytes are all 0.
C16_SelfSubtractIsZero ==
  (op.pc = "done" /\ op.optype = "Subtract" /\ op.rhs = image) =>
    /\ op.result.tag = "Ok"
    /\ width(op.result.image) = width(image)
    /\ height(op.result.image) = height(image)
    /\ Len(op.result.image.pixels) = Len(image.pixels)
    /\ \A k \in DOMAIN op.result.image.pixels : op.result.image.pixels[k] = 0

\* a two-pixel image of two colours subtracted from itself
C16_Witness ==
  /\ op.pc = "done"
  /\ op.optype = "Subtract"
  /\ op.rhs = image
  /\ PixelCount(image) = 2
  /\ get_pixel_at(image, 0) = PALE
  /\ get_pixel_at(image, 1) = DIM
  /\ op.result.tag = "Ok"

\* C17: for operands A and B of equal dimensions, Add of (A, B) and Add of
\* (B, A) return images of equal dimensions and identical buffers.
C17_AddCommutes ==
  (op.pc = "done" /\ op.optype = "Add" /\ EqualSize) =>
    LET swapped == perform_operation(op.rhs, image, "Add")
    IN  /\ op.result.tag = "Ok"
        /\ swapped.tag = "Ok"
        /\ width(swapped.image) = width(op.result.image)
        /\ height(swapped.image) = height(op.result.image)
        /\ swapped.image.pixels = op.result.image.pixels

\* a sum of two different two-pixel operands, one channel saturating
C17_Witness ==
  /\ op.pc = "done"
  /\ op.optype = "Add"
  /\ EqualSize
  /\ PixelCount(image) = 2
  /\ get_pixel_at(image, 0) = PALE
  /\ get_pixel_at(op.rhs, 0) = DIM
  /\ op.result.tag = "Ok"
  /\ get_pixel_at(op.result.image, 0) = <<255, 255, 60>>

\* the compromise size: the means of the widths and of the heights, rounded
\* down
Compromise ==
  <<(width(image) + width(op.rhs)) \div 2, (height(image) + height(op.rhs)) \div 2>>

\* an operand after bilinear resampling to the compromise size
Resampled(img) ==
  bilinear_interpolation(img, Compromise[1], Compromise[2]).image

\* an operand brought to the compromise size as resize does it: an operand
\* that has that size already is copied, any other is resampled
Resized(img) ==
  IF <<width(img), height(img)>> = Compromise THEN img ELSE Resampled(img)

\* C18 as stated: when the operands differ in width or height and the call
\* succeeds, both operands are bilinearly resampled to the compromise size
\* (floor((w1+w2)/2), floor((h1+h2)/2)) and the result has that size; when
\* they have equal dimensions nothing is resampled and the result has the
\* operands' size.
C18_BothResampled ==
  op.pc = "done" =>
    IF EqualSize
      THEN /\ op.lhs_copy = image
           /\ op.rhs_copy = op.rhs
           /\ op.result.tag = "Ok"
           /\ width(op.result.image) = width(image)
           /\ height(op.result.image) = height(image)
      ELSE op.result.tag = "Ok" =>
             /\ op.lhs_copy = Resampled(image)
             /\ op.rhs_copy = Resampled(op.rhs)
             /\ width(op.result.image) = Compromise[1]
             /\ height(op.result.image) = Compromise[2]

\* C18 amended: when the operands differ in width or height and the call
\* succeeds, each operand that does not have the compromise size already is
\* bilinearly resampled to it, an operand that has it is used unchanged,
\* and the result has the compromise size; when they have equal dimensions
\* nothing is resampled and the result has the operands' size.
C18_CompromiseSize ==
  op.pc = "done" =>
    IF EqualSize
      THEN /\ op.lhs_copy = image
           /\ op.rhs_copy = op.rhs
           /\ op.result.tag = "Ok"
           /\ width(op.result.image) = width(image)
           /\ height(op.result.image) = height(image)
      ELSE op.result.tag = "Ok" =>
             /\ op.lhs_copy = Resized(image)
             /\ op.rhs_copy = Resized(op.rhs)
             /\ width(op.lhs_copy) = Compromise[1]
             /\ height(op.lhs_copy) = Compromise[2]
             /\ width(op.rhs_copy) = Compromise[1]
             /\ height(op.rhs_copy) = Compromise[2]
             /\ width(op.result.image) = Compromise[1]
             /\ height(op.result.image) = Compromise[2]
             /\ Len(op.result.image.pixels)
                  = PIXEL_SIZE * Compromise[1] * Compromise[2]

\* a two-colour 2 x 1 operand and a 3 x 1 operand: the compromise size is
\* 2 x 1, the left operand is used as it is (resampling would change its
\* second pixel) and the right one is resampled
C18_Witness ==
  /\ op.pc = "done"
  /\ width(image) = 2 /\ height(image) = 1
  /\ width(op.rhs) = 3 /\ height(op.rhs) = 1
  /\ get_pixel_at(image, 0) # get_pixel_at(image, 1)
  /\ op.result.tag = "Ok"
  /\ op.lhs_copy = image
  /\ op.lhs_copy # Resampled(image)
  /\ op.rhs_copy = Resampled(op.rhs)
  /\ width(op.result.image) = 2
  /\ height(op.result.image) = 1

\* C19: perform_operation returns an error, and no image, whenever the
\* resize of an operand fails, which is when the operands' dimensions
\* differ and the compromise width or height is zero; it does not panic
\* and returns nothing partially combined.
C19_ResizeErrorReturned ==
  (/\ op.pc = "done"
   /\ ~EqualSize
   /\ \/ Compromise[1] = 0
      \/ Compromise[2] = 0
      \/ resize(image, op.w, op.h, "BilinearInterpolation").tag = "Err"
      \/ resize(op.rhs, op.w, op.h, "BilinearInterpolation").tag = "Err") =>
    /\ op.result = Err("The image cannot have height or width be zero.")
    /\ Compromise[1] = 0 \/ Compromise[2] = 0

\* a 0 x 1 and a 1 x 1 operand: the compromise size 0 x 1 is the left
\* operand's, so only the resize of the right operand fails
C19_Witness ==
  /\ op.pc = "done"
  /\ width(image) = 0 /\ height(image) = 1
  /\ width(op.rhs) = 1 /\ height(op.rhs) = 1
  /\ resize(image, op.w, op.h, "BilinearInterpolation").tag = "Ok"
  /\ resize(op.rhs, op.w, op.h, "BilinearInterpolation").tag = "Err"
  /\ op.result.tag = "Err"

(***************************************************************************)
(* Colour conversions (core/color.rs).  An HSVPixel is a triple of f32     *)
(* values [hue, saturation, value].                                        *)
(***************************************************************************)
H_CH == 0
S_CH == 1
V_CH == 2

\* a > b for f32 values
f32_gt(a, b) ==
  LET d == f32_sub(a, b)
  IN  d.man # 0 /\ ~d.neg

max(a, b) == IF f32_gt(a, b) THEN a ELSE b

min(a, b) == IF f32_gt(b, a) THEN a ELSE b

rgb_to_hsv(pixels) ==
  LET r == to_f32(pixels[R_CH + 1])
      g == to_f32(pixels[G_CH + 1])
      b == to_f32(pixels[B_CH + 1])
      c_max == max(max(r, g), b)
      c_min == min(min(r, g), b)
      delta == f32_sub(c_max, c_min)
      hue == IF delta = F32_ZERO THEN F32_ZERO
             ELSE IF c_max = r THEN f32_rem(f32_div(f32_sub(g, b), delta), 6)
             ELSE IF c_max = g
               THEN f32_add(f32_div(f32_sub(b, r), delta), to_f32(2))
             ELSE IF c_max = b
               THEN f32_add(f32_div(f32_sub(r, g), delta), to_f32(4))
             ELSE F32_ZERO
      saturation == IF c_max = F32_ZERO THEN F32_ZERO ELSE f32_div(delta, c_max)
  IN  <<f32_mul(hue, to_f32(60)), saturation, c_max>>

hsv_to_rgb(hue, saturation, value) ==
  LET sector == f32_div(hue, to_f32(60))
      hi == as_u32(f32_rem(f32_floor(sector), 6))
      f == f32_sub(sector, f32_floor(sector))
      scaled == f32_mul(value, to_f32(255))
      v == as_u8(f32_round(scaled))
      p == as_u8(f32_round(f32_mul(scaled, f32_sub(to_f32(1), saturation))))
      q == as_u8(f32_round(
             f32_mul(scaled, f32_sub(to_f32(1), f32_mul(f, saturation)))))
      t == as_u8(f32_round(
             f32_mul(scaled,
                     f32_sub(to_f32(1),
                             f32_mul(f32_sub(to_f32(1), f), saturation)))))
  IN  CASE hi = 0 -> <<v, t, p>>
        [] hi = 1 -> <<q, v, p>>
        [] hi = 2 -> <<p, v, t>>
        [] hi = 3 -> <<p, q, v>>
        [] hi = 4 -> <<t, p, v>>
        [] OTHER -> <<v, p, q>>

(***************************************************************************)
(* The conversions as a state machine: a pixel of an image is converted to *)
(* HSV and back, as histogram equalization and test_hsv_to_rgb do.         *)
(***************************************************************************)
\* the channel values of the pixels converted
HsvLevels == {0, 1, 100, 128, 255}

InitHsv ==
  /\ \E p \in HsvLevels \X HsvLevels \X HsvLevels : image = read_other(1, 1, <<p>>)
  /\ index = PIXEL_SIZE
  /\ ccl = NotCalled
  /\ op = NotCalled

RgbToHsv ==
  /\ op.pc = "idle"
  /\ LET rgb_pixel == get_pixel_by_coord(image, 0, 0)
     IN  op' = [pc |-> "hsv",
                rgb_pixel |-> rgb_pixel,
                hsv_pixel |-> rgb_to_hsv(rgb_pixel)]
  /\ UNCHANGED <<image, index, ccl>>

HsvToRgb ==
  /\ op.pc = "hsv"
  /\ op' = [pc |-> "done",
            rgb_pixel |-> op.rgb_pixel,
            hsv_pixel |-> op.hsv_pixel,
            back_to_rgb |-> hsv_to_rgb(op.hsv_pixel[H_CH + 1],
                                       op.hsv_pixel[S_CH + 1],
                                       op.hsv_pixel[V_CH + 1])]
  /\ UNCHANGED <<image, index, ccl>>

NextHsv == RgbToHsv \/ HsvToRgb

SpecHsv == InitHsv /\ [][NextHsv]_vars

(***************************************************************************)
(* Claims about the colour conversions                                     *)
(***************************************************************************)

\* C20: for every 8-bit RGB pixel p, hsv_to_rgb(rgb_to_hsv(p)) differs from
\* p by at most 2 in each channel.
C20_RoundTripWithinTwo ==
  op.pc = "done" =>
    \A ch \in 1..PIXEL_SIZE :
      AbsDiff(op.back_to_rgb[ch], op.rgb_pixel[ch]) <= 2

\* black, white, the primaries and the secondaries
Primaries == {0, 255} \X {0, 255} \X {0, 255}

\* C21: hsv_to_rgb(rgb_to_hsv(p)) equals p for black, white, red, green,
\* blue, cyan, magenta and yellow.
C21_PrimariesExact ==
  (op.pc = "done" /\ op.rgb_pixel \in Primaries) =>
    op.back_to_rgb = op.rgb_pixel

\* the largest and the smallest channel of the pixel converted
MaxChannel == SetMax({op.rgb_pixel[ch] : ch \in 1..PIXEL_SIZE})

MinChannel == SetMin({op.rgb_pixel[ch] : ch \in 1..PIXEL_SIZE})

\* C22: rgb_to_hsv returns a hue h with 0 <= h < 360, a saturation equal to
\* delta/max (0 when max is 0) and a value equal to the largest channel.
C22_HueWrapped ==
  op.pc \in {"hsv", "done"} =>
    LET hue == op.hsv_pixel[H_CH + 1]
    IN  /\ ~(hue.neg /\ hue.man # 0)
        /\ f32_gt(to_f32(360), hue)
        /\ op.hsv_pixel[S_CH + 1]
             = IF MaxChannel = 0 THEN F32_ZERO
               ELSE f32_div(to_f32(MaxChannel - MinChannel), to_f32(MaxChannel))
        /\ op.hsv_pixel[V_CH + 1] = to_f32(MaxChannel)

(***************************************************************************)
(* Filters (core/filters.rs).  The weights of a mask are powers of EULER   *)
(* computed by powf; the model keeps, for each weight, the offset (x, y)   *)
(* it is computed from, and takes the pixel values that the weighted sums  *)
(* round to as an input of the call.                                       *)
(***************************************************************************)
Paddings == {"Zero", "Repeat"}

\* a / b of two i32 values with b > 0: the quotient is truncated towards zero
TruncDiv(a, b) == IF a >= 0 THEN a \div b ELSE -((-a) \div b)

\* (n as f32).sqrt() as usize
SqrtFloor(n) == CHOOSE r \in 0..n : r * r <= n /\ n < (r + 1) * (r + 1)

\* the weights in the order they are pushed: x is the outer loop
get_gaussian_weight_matrix(kernel_size, sigma) ==
  LET start == TruncDiv(-1 * (kernel_size - 1), 2)
      end == TruncDiv(kernel_size - 1, 2)
      side == IF end < start THEN 0 ELSE end + 1 - start
  IN  [i \in 1..(side * side) |->
         [x |-> start + ((i - 1) \div side),
          y |-> start + ((i - 1) % side),
          sigma |-> sigma]]

\* Ok with the matrix in field mask, or the panic of matrix[size / 2] on an
\* empty vector
get_origin_matrix(kernel_size) ==
  LET size == kernel_size * kernel_size
  IN  IF size \div 2 >= size THEN Panic
      ELSE [tag |-> "Ok",
            mask |-> [i \in 1..size |-> IF i = size \div 2 + 1 THEN 1 ELSE 0]]

\* Ok with the pixels of the size x size window centred on (x, y) in field
\* matrix, or the panic of assert!(size % 2 != 0) or of a slice outside the
\* buffer
get_matrix_at(img, x, y, size, padding) ==
  LET start_delta == TruncDiv(-1 * (size - 1), 2)
      start_x == x + start_delta
      start_y == y + start_delta
      Clamp(v, hi) == SetMin({SetMax({v, 0}), hi})
      x_at(i) == start_x + ((i - 1) \div size)
      y_at(i) == start_y + ((i - 1) % size)
      Outside(i) == \/ x_at(i) < 0 \/ y_at(i) < 0
                    \/ x_at(i) >= width(img) \/ y_at(i) >= height(img)
      IndexAt(i) ==
        IF padding = "Repeat"
          THEN get_index(Clamp(x_at(i), width(img) - 1),
                         Clamp(y_at(i), height(img) - 1), width(img))
          ELSE get_index(x_at(i), y_at(i), width(img))
      Padded(i) == padding = "Zero" /\ Outside(i)
  IN  IF size % 2 = 0 THEN Panic
      ELSE IF \E i \in 1..(size * size) :
                ~Padded(i) /\ (IndexAt(i) < 0
                               \/ IndexAt(i) + PIXEL_SIZE > Len(img.pixels))
        THEN Panic
      ELSE [tag |-> "Ok",
            matrix |-> [i \in 1..(size * size) |->
                          IF Padded(i) THEN <<0, 0, 0>>
                          ELSE get_bytes_at(img, IndexAt(i))]]

\* the loops of apply_mask from pixel k on (k = x + y * width);
\* new_pixel_values[k + 1] is float_pixel_to_rgb(new_pixel_value) of pixel k
RECURSIVE ApplyMaskFrom(_, _, _, _, _, _, _)
ApplyMaskFrom(new_image, img, mask, kernel_size, padding, new_pixel_values, k) ==
  IF k >= width(img) * height(img) THEN Ok(new_image)
  ELSE IF get_matrix_at(img, k % width(img), k \div width(img),
                        kernel_size, padding).tag # "Ok"
    THEN Panic
  ELSE IF kernel_size * kernel_size > Len(mask)
    THEN Panic
  ELSE IF get_index(k % width(img), k \div width(img), width(img)) + PIXEL_SIZE
            > Len(new_image.pixels)
    THEN Panic
  ELSE ApplyMaskFrom(
         set_pixel_by_coord(new_image, k % width(img), k \div width(img),
                            new_pixel_values[k + 1]),
         img, mask, kernel_size, padding, new_pixel_values, k + 1)

apply_mask(img, mask, padding, new_pixel_values) ==
  ApplyMaskFrom(PpmImage_new(width(img), height(img)), img, mask,
                SqrtFloor(Len(mask)), padding, new_pixel_values, 0)

\* gaussian_blur that accepts the kernel size 1
gaussian_blur_odd_only(img, sigma, kernel_size, padding, new_pixel_values) ==
  IF ~f32_gt(sigma, F32_ZERO)
    THEN Err("Sigma value must be greater than 0, cannot be: {:.3}")
  ELSE IF kernel_size % 2 = 0
    THEN Err("Cannot have a blur filter with an even kernel size of {}. Kernel size must be odd.")
  ELSE apply_mask(img, get_gaussian_weight_matrix(kernel_size, sigma),
                  padding, new_pixel_values)

gaussian_blur(img, sigma, kernel_size, padding, new_pixel_values) ==
  IF ~f32_gt(sigma, F32_ZERO)
    THEN Err("Sigma value must be greater than 0, cannot be: {:.3}")
  ELSE IF kernel_size % 2 = 0
    THEN Err("Cannot have a blur filter with an even kernel size of {}. Kernel size must be odd.")
  ELSE IF kernel_size < 3
    THEN Err("Cannot have a kernel size that is less than three")
  ELSE apply_mask(img, get_gaussian_weight_matrix(kernel_size, sigma),
                  padding, new_pixel_values)

\* sharpen_mask[i] = origin[i] + (origin[i] - blur_filter[i]) * scale, or the
\* panic of blur_filter[i] past the end of blur_filter
SharpenMask(origin, blur_filter, scale) ==
  IF Len(origin) > Len(blur_filter) THEN Panic
  ELSE [tag |-> "Ok",
        mask |-> [i \in 1..Len(origin) |->
                    [origin |-> origin[i],
                     blur_filter |-> blur_filter[i],
                     scale |-> scale]]]

\* apply_mask on the sharpen mask, when building it did not panic
ApplySharpenMask(img, sharpen_mask, padding, new_pixel_values) ==
  IF sharpen_mask.tag # "Ok" THEN Panic
  ELSE apply_mask(img, sharpen_mask.mask, padding, new_pixel_values)

unsharp_mask(img, sigma, kernel_size, scale, padding, new_pixel_values) ==
  IF get_origin_matrix(kernel_size).tag # "Ok" THEN Panic
  ELSE ApplySharpenMask(
         img,
         SharpenMask(get_origin_matrix(kernel_size).mask,
                     get_gaussian_weight_matrix(kernel_size, sigma), scale),
         padding, new_pixel_values)

(***************************************************************************)
(* The filters as a state machine: a caller holding an image calls         *)
(* gaussian_blur or unsharp_mask once.                                     *)
(***************************************************************************)
\* the images hold at most MaxFilterPixels pixels, in two colours
MaxFilterPixels == 2

FilterColors == {RED, NAVY}

\* kernel sizes from -MaxKernel to MaxKernel
MaxKernel == 5

KernelSizes == (0 - MaxKernel)..MaxKernel

\* sigma and scale as whole numbers
Sigmas == {-1, 0, 1, 2}

Scales == {1}

FilterDims ==
  {d \in (0..MaxFilterPixels) \X (0..MaxFilterPixels) :
     d[1] * d[2] <= MaxFilterPixels}

InitFilters ==
  /\ \E d \in FilterDims :
       \E content \in [1..(d[1] * d[2]) -> FilterColors] :
         image = read_other(d[1], d[2], content)
  /\ index = PIXEL_SIZE * width(image) * height(image)
  /\ ccl = NotCalled
  /\ op = NotCalled

GaussianBlur(sigma, kernel_size, padding, new_pixel_values) ==
  /\ op.pc = "idle"
  /\ op' = [pc |-> "done",
            fn |-> "gaussian_blur",
            sigma |-> sigma,
            kernel_size |-> kernel_size,
            padding |-> padding,
            result |-> gaussian_blur(image, to_f32(sigma), kernel_size,
                                     padding, new_pixel_values)]
  /\ UNCHANGED <<image, index, ccl>>

UnsharpMask(sigma, kernel_size, scale, padding, new_pixel_values) ==
  /\ op.pc = "idle"
  /\ op' = [pc |-> "done",
            fn |-> "unsharp_mask",
            sigma |-> sigma,
            kernel_size |-> kernel_size,
            padding |-> padding,
            result |-> unsharp_mask(image, to_f32(sigma), kernel_size,
                                    to_f32(scale), padding, new_pixel_values)]
  /\ UNCHANGED <<image, index, ccl>>

NextFilters ==
  \/ \E sigma \in Sigmas, kernel_size \in KernelSizes, padding \in Paddings,
        new_pixel_values \in [1..(width(image) * height(image)) -> FilterColors] :
       GaussianBlur(sigma, kernel_size, padding, new_pixel_values)
  \/ \E sigma \in Sigmas, kernel_size \in KernelSizes, padding \in Paddings,
        scale \in Scales,
        new_pixel_values \in [1..(width(image) * height(image)) -> FilterColors] :
       UnsharpMask(sigma, kernel_size, scale, padding, new_pixel_values)

SpecFilters == InitFilters /\ [][NextFilters]_vars

(***************************************************************************)
(* Claims about the filters                                                *)
(***************************************************************************)
\* sigma <= 0, or an even kernel size, or a kernel size below 3
InvalidParameters ==
  op.sigma <= 0 \/ op.kernel_size % 2 = 0 \/ op.kernel_size < 3

\* C23: gaussian_blur returns an error, and no image, if and only if
\* sigma <= 0 or kernel_size is even or kernel_size < 3 (zero and negative
\* sizes included); for every other combination it returns an image with
\* the input's dimensions.
C23_BlurErrors ==
  (op.pc = "done" /\ op.fn = "gaussian_blur") =>
    /\ op.result.tag \in {"Ok", "Err"}
    /\ op.result.tag = "Err" <=> InvalidParameters
    /\ op.result.tag = "Ok" =>
         /\ width(op.result.image) = width(image)
         /\ height(op.result.image) = height(image)
         /\ Len(op.result.image.pixels) = Len(image.pixels)

\* a blur of a two-pixel image with kernel size 1 and a positive sigma
C23_Witness ==
  /\ op.pc = "done"
  /\ op.fn = "gaussian_blur"
  /\ op.kernel_size = 1
  /\ op.sigma = 1
  /\ Len(image.pixels) = 2 * PIXEL_SIZE
  /\ op.result = Err("Cannot have a kernel size that is less than three")

\* C24: unsharp_mask called with an even kernel_size, a kernel_size below 3
\* (0 and negative values included) or sigma <= 0 returns an error to the
\* caller; it neither panics nor returns an image.
C24_UnsharpErrors ==
  (op.pc = "done" /\ op.fn = "unsharp_mask" /\ InvalidParameters) =>
    op.result.tag = "Err"

(***************************************************************************)
(* Histogram (core/operations.rs): data maps a u32 key to an f32 count.    *)
(***************************************************************************)
V_MULT == 10000

\* f32::MAX and f32::MIN
F32_MAX == [neg |-> FALSE, man |-> 16777215, exp |-> 104]

F32_MIN == [neg |-> TRUE, man |-> 16777215, exp |-> 104]

Histogram_new ==
  [data |-> EmptyMap,
   max_value |-> F32_MIN,
   min_value |-> F32_MAX,
   pixel_count |-> 0]

\* "a as u32" is 2^31 or more, which no key of the model reaches
AsU32Huge(a) == ~a.neg /\ a.man # 0 /\ a.exp >= 8

\* the histogram after "if value > self.max_value as u32 { ... }"
update_max(h, value) ==
  IF ~AsU32Huge(h.max_value) /\ value > as_u32(h.max_value)
    THEN [h EXCEPT !.max_value = to_f32(value)]
    ELSE h

\* the histogram after "if value < self.min_value as u32 { ... }"
update_min(h, value) ==
  IF AsU32Huge(h.min_value) \/ value < as_u32(h.min_value)
    THEN [h EXCEPT !.min_value = to_f32(value)]
    ELSE h

update_max_min(h, value) == update_min(update_max(h, value), value)

downsample_float(value) == as_u32(f32_mul(value, to_f32(V_MULT)))

\* data after "if let Some(count) = self.data.get_mut(&key) { ... } else
\* { ... }"
AddCount(data, key) ==
  IF key \in DOMAIN data
    THEN MapInsert(data, key, f32_add(data[key], to_f32(1)))
    ELSE MapInsert(data, key, to_f32(1))

\* Histogram::add
HistogramAdd(h, value) ==
  [update_max_min(h, downsample_float(value))
     EXCEPT !.data = AddCount(h.data, downsample_float(value)),
            !.pixel_count = h.pixel_count + 1]

\* one turn of the loops of from_image, on pixel (x, y) = (k % w, k / w)
FromImageVisit(h, img, k) ==
  IF get_index(k % width(img), k \div width(img), width(img)) < Len(img.pixels)
    THEN HistogramAdd(
           h,
           rgb_to_hsv(get_bytes_at(
             img,
             get_index(k % width(img), k \div width(img), width(img))))[V_CH + 1])
    ELSE h

RECURSIVE FromImageFrom(_, _, _)
FromImageFrom(h, img, k) ==
  IF k >= width(img) * height(img) THEN h
  ELSE FromImageFrom(FromImageVisit(h, img, k), img, k + 1)

from_image(img) == FromImageFrom(Histogram_new, img, 0)

\* the loop of equalize over the keys not yet visited, in ascending order
RECURSIVE EqualizeFrom(_, _, _, _)
EqualizeFrom(h, keys, running_cdf, intensity_eq) ==
  IF keys = {} THEN intensity_eq
  ELSE EqualizeFrom(
         h, keys \ {SetMin(keys)},
         f32_add(running_cdf,
                 f32_div(h.data[SetMin(keys)], to_f32(h.pixel_count))),
         MapInsert(intensity_eq, SetMin(keys),
                   f32_mul(f32_add(running_cdf,
                                   f32_div(h.data[SetMin(keys)],
                                           to_f32(h.pixel_count))),
                           h.max_value)))

equalize(h) == EqualizeFrom(h, DOMAIN h.data, F32_ZERO, EmptyMap)

\* Option<Histogram>
NoHistogram == [tag |-> "None"]

SomeHistogram(h) == [tag |-> "Some", histogram |-> h]

\* hsv_pixels after the first loops of histogram_equalization, from pixel k on
RECURSIVE HsvPixelsFrom(_, _, _)
HsvPixelsFrom(hsv_pixels, img, k) ==
  IF k >= width(img) * height(img) THEN hsv_pixels
  ELSE IF get_index(k % width(img), k \div width(img), width(img))
            < Len(img.pixels)
    THEN HsvPixelsFrom(
           Append(hsv_pixels,
                  rgb_to_hsv(get_bytes_at(
                    img,
                    get_index(k % width(img), k \div width(img), width(img))))),
           img, k + 1)
  ELSE HsvPixelsFrom(hsv_pixels, img, k + 1)

\* "for hsv_pixel in hsv_pixels { ... }" from element i on; a pixel whose key
\* is missing in intensity_eq is passed over and pixel_index stays
RECURSIVE ReconstructFrom(_, _, _, _, _)
ReconstructFrom(equalized_image, hsv_pixels, intensity_eq, i, pixel_index) ==
  IF i > Len(hsv_pixels) THEN Ok(equalized_image)
  ELSE IF downsample_float(hsv_pixels[i][V_CH + 1]) \in DOMAIN intensity_eq
    THEN IF pixel_index + PIXEL_SIZE > Len(equalized_image.pixels) THEN Panic
         ELSE ReconstructFrom(
                set_pixel(equalized_image, pixel_index,
                          hsv_to_rgb(
                            hsv_pixels[i][H_CH + 1],
                            hsv_pixels[i][S_CH + 1],
                            f32_div(
                              intensity_eq[
                                downsample_float(hsv_pixels[i][V_CH + 1])],
                              to_f32(V_MULT)))),
                hsv_pixels, intensity_eq, i + 1, pixel_index + PIXEL_SIZE)
  ELSE ReconstructFrom(equalized_image, hsv_pixels, intensity_eq,
                       i + 1, pixel_index)

\* the histogram histogram_equalization equalizes with
HistogramUsed(img, target_histogram) ==
  IF target_histogram.tag = "None" THEN from_image(img)
  ELSE target_histogram.histogram

histogram_equalization(img, target_histogram) ==
  ReconstructFrom(PpmImage_new(width(img), height(img)),
                  HsvPixelsFrom(<< >>, img, 0),
                  equalize(HistogramUsed(img, target_histogram)), 1, 0)

(***************************************************************************)
(* Histogram::from_image as a state machine: one add per pixel, in raster  *)
(* order.  op.k is the number of pixels visited.                           *)
(***************************************************************************)
\* the images hold at most MaxHistPixels pixels, in three colours
MaxHistPixels == 3

HistColors == {BLACK, NAVY, RED}

HistDims ==
  {d \in (1..MaxHistPixels) \X (1..MaxHistPixels) : d[1] * d[2] <= MaxHistPixels}

HistImages ==
  UNION {{read_other(d[1], d[2], content) :
            content \in [1..(d[1] * d[2]) -> HistColors]} : d \in HistDims}

InitHistogram ==
  /\ image \in HistImages
  /\ index = PIXEL_SIZE * width(image) * height(image)
  /\ ccl = NotCalled
  /\ op = [pc |-> "from_image", k |-> 0, histogram |-> Histogram_new]

\* from_image visits one more pixel
FromImagePixel ==
  /\ op.pc = "from_image"
  /\ op.k < width(image) * height(image)
  /\ op' = [op EXCEPT !.k = op.k + 1,
                        !.histogram = FromImageVisit(op.histogram, image, op.k)]
  /\ UNCHANGED <<image, index, ccl>>

\* from_image returns the histogram
FromImageReturn ==
  /\ op.pc = "from_image"
  /\ op.k >= width(image) * height(image)
  /\ op' = [op EXCEPT !.pc = "done"]
  /\ UNCHANGED <<image, index, ccl>>

NextHistogram == FromImagePixel \/ FromImageReturn

SpecHistogram == InitHistogram /\ [][NextHistogram]_vars

(***************************************************************************)
(* Claims about Histogram                                                  *)
(***************************************************************************)
RECURSIVE SumOfCounts(_, _)
SumOfCounts(data, keys) ==
  IF keys = {} THEN F32_ZERO
  ELSE LET key == CHOOSE key \in keys : TRUE
       IN  f32_add(data[key], SumOfCounts(data, keys \ {key}))

\* C26: after a non-empty sequence of add calls on a new Histogram,
\* min_value is the smallest key of data, max_value the greatest key, and
\* pixel_count the sum of the counts stored; a histogram whose only key is
\* 0 is included.
C26_HistogramBounds ==
  (op.pc \in {"from_image", "done"} /\ op.k >= 1) =>
    /\ DOMAIN op.histogram.data # {}
    /\ op.histogram.min_value = to_f32(SetMin(DOMAIN op.histogram.data))
    /\ op.histogram.max_value = to_f32(SetMax(DOMAIN op.histogram.data))
    /\ to_f32(op.histogram.pixel_count)
         = SumOfCounts(op.histogram.data, DOMAIN op.histogram.data)

(***************************************************************************)
(* histogram_equalization as a state machine: a caller holding an image    *)
(* calls it once, without a histogram or with the histogram of an image.   *)
(***************************************************************************)
TargetHistograms ==
  {NoHistogram} \cup {SomeHistogram(from_image(img)) : img \in HistImages}

InitEqualize ==
  /\ image \in HistImages
  /\ index = PIXEL_SIZE * width(image) * height(image)
  /\ ccl = NotCalled
  /\ op = NotCalled

HistogramEqualization(target_histogram) ==
  /\ op.pc = "idle"
  /\ op' = [pc |-> "done",
            target_histogram |-> target_histogram,
            result |-> histogram_equalization(image, target_histogram)]
  /\ UNCHANGED <<image, index, ccl>>

NextEqualize ==
  \E target_histogram \in TargetHistograms :
    HistogramEqualization(target_histogram)

SpecEqualize == InitEqualize /\ [][NextEqualize]_vars

(***************************************************************************)
(* Claims about histogram_equalization                                     *)
(***************************************************************************)
\* the equalization map of the call
IntensityEq == equalize(HistogramUsed(image, op.target_histogram))

\* the pixel that the input pixel at raster position i is rebuilt to: its
\* hue and saturation, and the mapped value of its brightness key
Rebuilt(i) ==
  hsv_to_rgb(
    rgb_to_hsv(get_pixel_at(image, i))[H_CH + 1],
    rgb_to_hsv(get_pixel_at(image, i))[S_CH + 1],
    f32_div(IntensityEq[downsample_float(
                          rgb_to_hsv(get_pixel_at(image, i))[V_CH + 1])],
            to_f32(V_MULT)))

\* C25: for every input image and every histogram (built by the call or
\* supplied, a supplied one that lacks the brightness key of an input pixel
\* included), no input pixel is skipped and the output pixel at raster
\* position i is computed from the hue and saturation of the input pixel at
\* position i.
C25_RebuiltInPlace ==
  op.pc = "done" =>
    /\ op.result.tag = "Ok"
    /\ \A i \in 0..(PixelCount(image) - 1) :
         /\ downsample_float(rgb_to_hsv(get_pixel_at(image, i))[V_CH + 1])
              \in DOMAIN IntensityEq
         /\ get_pixel_at(op.result.image, i) = Rebuilt(i)

(***************************************************************************)
(* Writing pixels as a state machine: a caller constructs an image and     *)
(* writes pixels by index and by coordinate.                               *)
(***************************************************************************)
\* the images written to hold at most MaxWritePixels pixels
MaxWritePixels == 4

WriteDims ==
  {d \in (1..MaxWritePixels) \X (1..MaxWritePixels) :
     d[1] * d[2] <= MaxWritePixels}

InitWrite ==
  /\ \E d \in WriteDims : image = PpmImage_new(d[1], d[2])
  /\ index = 0
  /\ ccl = NotCalled
  /\ op = NotCalled

NextWrite ==
  \/ \E i \in 0..(PIXEL_SIZE * MaxWritePixels), p \in PixelInputs :
       SetPixel(i, p)
  \/ \E x \in 0..(MaxWritePixels - 1), y \in 0..(MaxWritePixels - 1),
        p \in PixelInputs :
       SetPixelByCoord(x, y, p)

SpecWrite == InitWrite /\ [][NextWrite]_vars

(***************************************************************************)
(* Claims about pixel access by coordinate                                 *)
(***************************************************************************)
\* the byte index of the R byte of pixel (x, y) in a row-major buffer
ByteIndex(x, y) == 3 * (x + y * width(image))

\* C27: for in-bounds (x, y), set_pixel_by_coord(x, y, p) has the effect of
\* set_pixel at byte index 3*(x + y*width): afterwards get_pixel_by_coord(x,
\* y) returns p, the bytes of every other pixel and the buffer length are
\* unchanged; set_pixel advances the caller's index by exactly 3.
C27_ByCoordIsByIndex ==
  [][/\ \A x \in 0..(MaxWritePixels - 1), y \in 0..(MaxWritePixels - 1),
           p \in PixelInputs :
          (/\ index' = index
           /\ x < width(image)
           /\ y < height(image)
           /\ SetPixelByCoord(x, y, p)) =>
            /\ image' = set_pixel(image, ByteIndex(x, y), p)
            /\ get_pixel_by_coord(image', x, y) = p
            /\ Len(image'.pixels) = Len(image.pixels)
            /\ \A k \in 1..Len(image.pixels) :
                 image'.pixels[k]
                   = IF k \in (ByteIndex(x, y) + 1)..(ByteIndex(x, y) + 3)
                       THEN p[k - ByteIndex(x, y)]
                       ELSE image.pixels[k]
     /\ \A i \in 0..(PIXEL_SIZE * MaxWritePixels), p \in PixelInputs :
          (index' # index /\ SetPixel(i, p)) => index' = i + 3]_vars

\* a 2 x 2 image written by coordinate only: red at (1, 0), [0,0,9] at
\* (0, 1)
C27_Witness ==
  /\ width(image) = 2
  /\ height(image) = 2
  /\ index = 0
  /\ image.pixels = <<0, 0, 0, 255, 0, 0, 0, 0, 9, 0, 0, 0>>

\* C28: get_pixel_by_coord(x, y) returns None whenever x >= width or
\* y >= height, and the pixel stored at column x of row y otherwise; a
\* coordinate with x >= width and y < height - 1 does not return a pixel of
\* another row.
C28_OutOfBoundsIsNone ==
  \A x \in 0..MaxPixels, y \in 0..MaxPixels :
    IF x >= width(image) \/ y >= height(image)
      THEN get_pixel_by_coord(image, x, y) = None
      ELSE ByteIndex(x, y) + 3 <= Len(image.pixels) =>
             get_pixel_by_coord(image, x, y)
               = <<image.pixels[ByteIndex(x, y) + 1],
                   image.pixels[ByteIndex(x, y) + 2],
                   image.pixels[ByteIndex(x, y) + 3]>>

(***************************************************************************)
(* Claims about the labels of connected components                         *)
(***************************************************************************)
\* raster positions that share an edge or a corner
Adjacent8(j, k) ==
  LET w == width(image)
  IN  /\ j # k
      /\ AbsDiff(j % w, k % w) <= 1
      /\ AbsDiff(j \div w, k \div w) <= 1

\* adjacency under a connectivity: shared edges for FOUR, edges and corners
\* for EIGHT and NOS
AdjacentUnder(c_type, j, k) ==
  IF c_type = "FOUR" THEN Adjacent4(j, k) ELSE Adjacent8(j, k)

\* the positions of P joined to S by a path of adjacent positions of P
RECURSIVE ReachUnder(_, _, _)
ReachUnder(c_type, S, P) ==
  LET T == S \cup {k \in P : \E j \in S : AdjacentUnder(c_type, j, k)}
  IN  IF T = S THEN S ELSE ReachUnder(c_type, T, P)

\* C29: at tolerance 1.0, any two pixels of the returned label array that
\* share a non-zero label have the same colour and are joined by a path of
\* adjacent pixels of that colour under the chosen connectivity; pixels of
\* different colours never share a non-zero label.
C29_LabelsSound ==
  (ccl.pc = "done" /\ ccl.tolerance = 100) =>
    \A j \in Positions, k \in Positions :
      (CclLabels[j + 1] # UNLABELED /\ CclLabels[j + 1] = CclLabels[k + 1]) =>
        /\ PixelOf(j) = PixelOf(k)
        /\ k \in ReachUnder(ccl.c_type, {j}, PositionsOf(PixelOf(j)))

\* a returned label array at tolerance 1.0 in which three pixels share a
\* label and a pixel of another colour has another label
C29_Witness ==
  /\ ccl.pc = "done"
  /\ ccl.tolerance = 100
  /\ \E j \in Positions, k \in Positions :
       /\ CclLabels[j + 1] # UNLABELED
       /\ CclLabels[k + 1] # UNLABELED
       /\ CclLabels[j + 1] # CclLabels[k + 1]
       /\ PixelOf(j) # PixelOf(k)
       /\ Cardinality({n \in Positions : CclLabels[n + 1] = CclLabels[j + 1]}) >= 3

\* the locals of ccl after the first-pass loops, entered at (st.x, st.y)
RECURSIVE FirstPassFrom(_, _)
FirstPassFrom(st, img) ==
  IF st.y >= height(img) THEN st
  ELSE FirstPassFrom(Advance(FirstPassPixel(st, img), img), img)

\* the locals of ccl after the second-pass loops, entered at (st.x, st.y)
RECURSIVE SecondPassFrom(_, _)
SecondPassFrom(st, img) ==
  IF st.y >= height(img) THEN st
  ELSE SecondPassFrom(Advance(SecondPassPixel(st, img), img), img)

\* the pair (labels, cur_label) that ccl(image, c_type, tolerance) returns
\* when get_background gives bg_color
ccl_fn(img, c_type, tolerance, bg_color) ==
  LET first == FirstPassFrom(CclEntry(img, c_type, tolerance, bg_color), img)
      second == SecondPassFrom([first EXCEPT !.x = 0, !.y = 0], img)
  IN  <<second.labels, second.cur_label>>

\* C30: on every image and at every tolerance, ccl in NOS mode returns the
\* label array and the count that ccl in EIGHT mode returns.
C30_NosIsEight ==
  (ccl.pc = "done" /\ ccl.c_type = "NOS") =>
    <<CclLabels, CclCount>>
      = ccl_fn(image, "EIGHT", ccl.tolerance, ccl.bg_color)

\* a returned NOS labelling of a pixel below row 0 whose East and South
\* neighbours have its colour, all three labelled
C30_Witness ==
  /\ ccl.pc = "done"
  /\ ccl.c_type = "NOS"
  /\ \E k \in Positions :
       /\ k >= width(image)
       /\ (k + 1) % width(image) # 0
       /\ k + width(image) \in Positions
       /\ CclLabels[k + 1] # UNLABELED
       /\ PixelOf(k + 1) = PixelOf(k)
       /\ PixelOf(k + width(image)) = PixelOf(k)
       /\ CclLabels[k + 2] = CclLabels[k + 1]
       /\ CclLabels[k + width(image) + 1] = CclLabels[k + 1]

====
